---- MODULE Spec2Model ----
(***************************************************************************)
(* A model of text-readability-ts (src/src/index.ts): the Math.legacyRound *)
(* helper, the tokenizer and counting primitives, the readability formulas *)
(* and the two aggregators textStandard and textMedian.                    *)
(*                                                                         *)
(* A text is a sequence of characters, each character a one-character      *)
(* string.  A JavaScript number is a record [k, n, d]: k = "fin" is the    *)
(* rational n/d in lowest terms (d > 0), k = "inf" is +Infinity (n = 1) or *)
(* -Infinity (n = -1), k = "nan" is NaN.  Finite arithmetic is exact; the  *)
(* propagation of NaN and of the infinities follows IEEE 754 as JavaScript *)
(* applies it.  The sign of zero is not kept: no divisor of the program is *)
(* a negative zero.                                                        *)
(***************************************************************************)
EXTENDS Integers, Sequences, FiniteSets, TLC

\* op: the method called last ("idle": none since the caller took the result);
\* text, num: the caller's text and number; arg: the other arguments of the
\* call; ret: the value returned, [t |-> its typeof, v |-> the value]; grade:
\* the local array grade of textStandard and textMedian
VARIABLES op, text, num, arg, ret, grade

vars == <<op, text, num, arg, ret, grade>>

-----------------------------------------------------------------------------
(* JavaScript numbers *)

RECURSIVE Gcd(_, _)
Gcd(a, b) == IF b = 0 THEN a ELSE Gcd(b, a % b)

AbsInt(i) == IF i < 0 THEN -i ELSE i

NaN == [k |-> "nan", n |-> 0, d |-> 1]

PosInf == [k |-> "inf", n |-> 1, d |-> 1]

NegInf == [k |-> "inf", n |-> -1, d |-> 1]

\* the finite number n/d (d # 0), in lowest terms
Fin(n, d) ==
    LET s == IF d < 0 THEN -1 ELSE 1
        g == Gcd(AbsInt(n), AbsInt(d))
    IN  [k |-> "fin", n |-> (s * n) \div g, d |-> (s * d) \div g]

I(i) == [k |-> "fin", n |-> i, d |-> 1]

Zero == I(0)

IsNaN(x) == x.k = "nan"

IsFinite(x) == x.k = "fin"

Sgn(x) == IF x.n > 0 THEN 1 ELSE IF x.n < 0 THEN -1 ELSE 0

Neg(x) == [x EXCEPT !.n = -x.n]

Abs(x) == [x EXCEPT !.n = AbsInt(x.n)]

\* x + y
Add(x, y) ==
    IF IsNaN(x) \/ IsNaN(y) THEN NaN
    ELSE IF x.k = "inf" /\ y.k = "inf" THEN (IF x.n = y.n THEN x ELSE NaN)
    ELSE IF x.k = "inf" THEN x
    ELSE IF y.k = "inf" THEN y
    ELSE LET g == Gcd(x.d, y.d)
         IN  Fin(x.n * (y.d \div g) + y.n * (x.d \div g), (x.d \div g) * y.d)

\* x - y
Sub(x, y) == Add(x, Neg(y))

\* x * y
Mul(x, y) ==
    IF IsNaN(x) \/ IsNaN(y) THEN NaN
    ELSE IF x.k = "inf" \/ y.k = "inf"
         THEN (IF Sgn(x) * Sgn(y) = 0 THEN NaN
               ELSE IF Sgn(x) * Sgn(y) > 0 THEN PosInf ELSE NegInf)
    ELSE LET g1 == Gcd(AbsInt(x.n), y.d)
             g2 == Gcd(AbsInt(y.n), x.d)
         IN  Fin((x.n \div g1) * (y.n \div g2), (x.d \div g2) * (y.d \div g1))

\* x / y
Div(x, y) ==
    IF IsNaN(x) \/ IsNaN(y) THEN NaN
    ELSE IF x.k = "inf"
         THEN (IF y.k = "inf" THEN NaN
               ELSE IF Sgn(x) * Sgn(y) < 0 THEN Neg(PosInf) ELSE PosInf)
    ELSE IF y.k = "inf" THEN Zero
    ELSE IF y.n = 0
         THEN (IF x.n = 0 THEN NaN ELSE IF x.n > 0 THEN PosInf ELSE NegInf)
    ELSE Mul(x, Fin(y.d, y.n))

\* x < y, false when either is NaN
Lt(x, y) ==
    IF IsNaN(x) \/ IsNaN(y) THEN FALSE
    ELSE IF x.k = "inf" THEN x.n < 0 /\ ~(y.k = "inf" /\ y.n < 0)
    ELSE IF y.k = "inf" THEN y.n > 0
    ELSE Sgn(Sub(x, y)) < 0

\* x === y, false when either is NaN
StrictEq(x, y) == ~IsNaN(x) /\ ~IsNaN(y) /\ x = y

Le(x, y) == Lt(x, y) \/ StrictEq(x, y)

Gt(x, y) == Lt(y, x)

Ge(x, y) == Le(y, x)

\* the integer floor of n/d, d > 0 (\div rounds toward minus infinity)
FloorInt(x) == x.n \div x.d

\* Math.floor
Floor(x) == IF IsFinite(x) THEN I(FloorInt(x)) ELSE x

\* Math.ceil
Ceil(x) == IF IsFinite(x) THEN I(-((-x.n) \div x.d)) ELSE x

\* Math.abs
MathAbs(x) == Abs(x)

RECURSIVE PowInt(_, _)
PowInt(b, e) == IF e = 0 THEN 1 ELSE b * PowInt(b, e - 1)

\* a decimal literal: m * 10^-places
Dec(m, places) == Fin(m, PowInt(10, places))

-----------------------------------------------------------------------------
(* Math.copySign and Math.legacyRound *)

\* x * (y / Math.abs(y)): NaN when y is 0, an infinity or NaN
copySign(x, y) == Mul(x, Div(y, MathAbs(y)))

\* Math.floor((number * p) + Math.copySign(0.5, number)) / p, p = 10 ** points
legacyRound(number, points) ==
    LET p == I(PowInt(10, points))
    IN  Div(Floor(Add(Mul(number, p), copySign(Dec(5, 1), number))), p)

-----------------------------------------------------------------------------
(* Characters *)

Uppers == <<"A", "B", "C", "D", "E", "F", "G", "H", "I", "J", "K", "L", "M",
            "N", "O", "P", "Q", "R", "S", "T", "U", "V", "W", "X", "Y", "Z">>

Lowers == <<"a", "b", "c", "d", "e", "f", "g", "h", "i", "j", "k", "l", "m",
            "n", "o", "p", "q", "r", "s", "t", "u", "v", "w", "x", "y", "z">>

\* [A-Z]
UpperSet == {Uppers[i] : i \in 1..26}

\* the characters of punctuationRE; "backtick" stands for the grave accent,
\* "lsquo" and "rsquo" for the single characters U+2018 and U+2019 of its
\* range U+2000..U+206F
Punct == {"\\", "'", "!", "\"", "#", "$", "%", "&", "(", ")", "*", "+", ",",
          "-", ".", "/", ":", ";", "<", "=", ">", "?", "@", "[", "]", "^",
          "_", "backtick", "{", "|", "}", "~", "lsquo", "rsquo"}

\* the delimiters of /,| |\n|\r/
Delims == {",", " ", "\n", "\r"}

\* String.prototype.toLocaleLowerCase, one character
LowerChar(c) ==
    IF c \in UpperSet THEN Lowers[CHOOSE i \in 1..26 : Uppers[i] = c] ELSE c

toLocaleLowerCase(s) == [i \in 1..Len(s) |-> LowerChar(s[i])]

\* text.replace(/ /g, '')
stripSpaces(s) == SelectSeq(s, LAMBDA c : c # " ")

\* s.slice(a, b) with 0-based a and exclusive b, 0 <= a
Slice(s, a, b) == IF b <= a THEN <<>> ELSE SubSeq(s, a + 1, b)

-----------------------------------------------------------------------------
(* Tokenizer and counts *)

\* charCount that never strips the spaces
charCountKeepingSpaces(t, ignoreSpaces) == Len(t)

charCount(t, ignoreSpaces) == Len(IF ignoreSpaces THEN stripSpaces(t) ELSE t)

\* the replacement without the flag g: the first punctuation character only
removePunctuationFirst(t) ==
    IF \E i \in 1..Len(t) : t[i] \in Punct
    THEN LET first == CHOOSE i \in 1..Len(t) :
                          t[i] \in Punct /\ \A j \in 1..(i - 1) : t[j] \notin Punct
         IN  SubSeq(t, 1, first - 1) \o SubSeq(t, first + 1, Len(t))
    ELSE t

\* text.replace(punctuationRE, '')
removePunctuation(t) == SelectSeq(t, LAMBDA c : c \notin Punct)

letterCount(t, ignoreSpaces) ==
    Len(removePunctuation(IF ignoreSpaces THEN stripSpaces(t) ELSE t))

\* String.prototype.split on one-character delimiters: the pieces between the
\* delimiters, the empty ones included
RECURSIVE SplitAt(_, _, _, _, _)
SplitAt(t, seps, i, cur, acc) ==
    IF i > Len(t) THEN Append(acc, cur)
    ELSE IF t[i] \in seps THEN SplitAt(t, seps, i + 1, <<>>, Append(acc, cur))
    ELSE SplitAt(t, seps, i + 1, Append(cur, t[i]), acc)

\* text.split(/,| |\n|\r/g).filter(n => n)
split(t) == SelectSeq(SplitAt(t, Delims, 1, <<>>, <<>>), LAMBDA w : w # <<>>)

lexiconCount(t, stripPunctuation) ==
    Len(split(IF stripPunctuation THEN removePunctuation(t) ELSE t))

\* the number of consecutive characters of cs in t from index i on
RECURSIVE Run(_, _, _)
Run(t, i, cs) == IF i <= Len(t) /\ t[i] \in cs THEN 1 + Run(t, i + 1, cs) ELSE 0

\* / *[.?!]['")\]]*[ |\n](?=[A-Z])/ tried at index i: the index of the last
\* character matched, 0 when there is no match starting at i
SentenceBreakEnd(t, i) ==
    LET j == i + Run(t, i, {" "})
        k == j + 1 + Run(t, j + 1, {"'", "\"", ")", "]"})
    IN  IF /\ j <= Len(t) /\ t[j] \in {".", "?", "!"}
           /\ k <= Len(t) /\ t[k] \in {" ", "|", "\n"}
           /\ k + 1 <= Len(t) /\ t[k + 1] \in UpperSet
        THEN k ELSE 0

\* text.split(that pattern): p is the index after the previous match, q the
\* index the next match is tried at
RECURSIVE SentenceSplit(_, _, _, _)
SentenceSplit(t, p, q, acc) ==
    IF q > Len(t) THEN Append(acc, SubSeq(t, p, Len(t)))
    ELSE LET e == SentenceBreakEnd(t, q)
         IN  IF e = 0 THEN SentenceSplit(t, p, q + 1, acc)
             ELSE SentenceSplit(t, e + 1, e + 1, Append(acc, SubSeq(t, p, q - 1)))

splitSentences(t) == SentenceSplit(t, 1, 1, <<>>)

\* sentenceCount without its floor of 1
sentenceCountUnfloored(t) ==
    LET sentences == splitSentences(t)
        ignoreCount == Cardinality({i \in 1..Len(sentences) :
                                        lexiconCount(sentences[i], TRUE) <= 2})
    IN  Len(sentences) - ignoreCount

sentenceCount(t) ==
    LET sentences == splitSentences(t)
        ignoreCount == Cardinality({i \in 1..Len(sentences) :
                                        lexiconCount(sentences[i], TRUE) <= 2})
        validSentences == Len(sentences) - ignoreCount
    IN  IF validSentences > 1 THEN validSentences ELSE 1

-----------------------------------------------------------------------------
(* External collaborators: the syllable estimator, pluralize, the easy words *)

Vowels == {"a", "e", "i", "o", "u", "y"}

\* syllable(text), for a lower-case text without punctuation: the estimate
\* of each word is taken to be the number of its maximal vowel groups
RECURSIVE VowelGroups(_, _, _)
VowelGroups(s, i, inGroup) ==
    IF i > Len(s) THEN 0
    ELSE IF s[i] \in Vowels
         THEN (IF inGroup THEN 0 ELSE 1) + VowelGroups(s, i + 1, TRUE)
    ELSE VowelGroups(s, i + 1, FALSE)

syllable(s) == VowelGroups(s, 1, FALSE)

\* pluralize(word) with no count: the plural form of the word
pluralize(w) ==
    IF w # <<>> /\ w[Len(w)] = "s" THEN w ELSE Append(w, "s")

\* new Set(easyWords): a fixture of the easy-word list
easyWordSet == {
    <<"a">>,
    <<"i">>,
    <<"g", "o">>,
    <<"u", "p">>,
    <<"c", "a", "t">>,
    <<"s", "a", "t">>,
    <<"t", "h", "e">>,
    <<"i", "s">>,
    <<"l", "i", "k", "e">>,
    <<"r", "u", "n">>,
    <<"e", "a", "t">>,
    <<"s", "w", "i", "m">>,
    <<"f", "o", "r", "c", "e">>,
    <<"i", "d", "e", "a">>}

-----------------------------------------------------------------------------
(* Syllables and difficult words *)

syllableCount(t) ==
    LET cleaned == removePunctuation(toLocaleLowerCase(t))
    IN  IF cleaned = <<>> THEN 0 ELSE syllable(cleaned)

endsWith(w, suffix) ==
    /\ Len(w) >= Len(suffix)
    /\ SubSeq(w, Len(w) - Len(suffix) + 1, Len(w)) = suffix

\* presentTense without the test of the length
presentTenseAnyLength(word) ==
    IF endsWith(word, <<"e", "d">>)
    THEN (IF Slice(word, 0, Len(word) - 1) \in easyWordSet
          THEN Slice(word, 0, Len(word) - 1)
          ELSE Slice(word, 0, Len(word) - 2))
    ELSE IF endsWith(word, <<"i", "n", "g">>)
         THEN (LET suffixIngToE == Slice(word, 0, Len(word) - 3) \o <<"e">>
               IN  IF suffixIngToE \in easyWordSet THEN suffixIngToE
                   ELSE Slice(word, 0, Len(word) - 3))
    ELSE word

\* presentTense that drops "ed" and "ing" without asking the dictionary
presentTenseNoDictionary(word) ==
    IF Len(word) < 6 THEN word
    ELSE IF endsWith(word, <<"e", "d">>) THEN Slice(word, 0, Len(word) - 2)
    ELSE IF endsWith(word, <<"i", "n", "g">>) THEN Slice(word, 0, Len(word) - 3)
    ELSE word

presentTense(word) ==
    IF Len(word) < 6 THEN word
    ELSE IF endsWith(word, <<"e", "d">>)
         THEN (IF Slice(word, 0, Len(word) - 1) \in easyWordSet
               THEN Slice(word, 0, Len(word) - 1)
               ELSE Slice(word, 0, Len(word) - 2))
    ELSE IF endsWith(word, <<"i", "n", "g">>)
         THEN (LET suffixIngToE == Slice(word, 0, Len(word) - 3) \o <<"e">>
               IN  IF suffixIngToE \in easyWordSet THEN suffixIngToE
                   ELSE Slice(word, 0, Len(word) - 3))
    ELSE word

Digits == {"0", "1", "2", "3", "4", "5", "6", "7", "8", "9"}

\* [\w=lsquo rsquo]
WordChars == UpperSet \cup {Lowers[i] : i \in 1..26} \cup Digits
             \cup {"_", "=", "lsquo", "rsquo"}

\* text.match(/[\w=..]+/g): the maximal runs of word characters (no run: null,
\* here the empty sequence)
RECURSIVE MatchRuns(_, _, _, _)
MatchRuns(t, i, cur, acc) ==
    IF i > Len(t) THEN (IF cur = <<>> THEN acc ELSE Append(acc, cur))
    ELSE IF t[i] \in WordChars THEN MatchRuns(t, i + 1, Append(cur, t[i]), acc)
    ELSE MatchRuns(t, i + 1, <<>>, IF cur = <<>> THEN acc ELSE Append(acc, cur))

matchWords(t) == MatchRuns(t, 1, <<>>, <<>>)

\* diffWordsSet with <= for >=: the words of at most the threshold's syllables
diffWordsSetAtMost(t, syllableThreshold) ==
    LET textList == matchWords(t)
    IN  {textList[i] : i \in {j \in 1..Len(textList) :
            /\ presentTense(pluralize(toLocaleLowerCase(textList[j]))) \notin easyWordSet
            /\ syllableCount(textList[j]) <= syllableThreshold}}

\* the set diffWordsSet that difficultWords fills
diffWordsSet(t, syllableThreshold) ==
    LET textList == matchWords(t)
    IN  {textList[i] : i \in {j \in 1..Len(textList) :
            /\ presentTense(pluralize(toLocaleLowerCase(textList[j]))) \notin easyWordSet
            /\ syllableCount(textList[j]) >= syllableThreshold}}

\* difficultWords counting every difficult token, the repeated ones too
difficultWordsWithRepeats(t, syllableThreshold) ==
    LET textList == matchWords(t)
    IN  Cardinality({j \in 1..Len(textList) :
            /\ presentTense(pluralize(toLocaleLowerCase(textList[j]))) \notin easyWordSet
            /\ syllableCount(textList[j]) >= syllableThreshold})

difficultWords(t, syllableThreshold) == Cardinality(diffWordsSet(t, syllableThreshold))

-----------------------------------------------------------------------------
(* Metric primitives *)

\* a return without the isNaN guard
orZeroUnguarded(returnVal) == returnVal

\* !isNaN(returnVal) ? returnVal : 0.0
orZero(returnVal) == IF ~IsNaN(returnVal) THEN returnVal ELSE Zero

averageSentenceLength(t) ==
    LET asl == Div(I(lexiconCount(t, TRUE)), I(sentenceCount(t)))
    IN  orZero(legacyRound(asl, 1))

averageSyllablePerWord(t) ==
    LET syllablePerWord == Div(I(syllableCount(t)), I(lexiconCount(t, TRUE)))
    IN  orZero(legacyRound(syllablePerWord, 1))

averageCharacterPerWord(t) ==
    LET charactersPerWord == Div(I(charCount(t, TRUE)), I(lexiconCount(t, TRUE)))
    IN  orZero(legacyRound(charactersPerWord, 2))

averageLetterPerWord(t) ==
    LET lettersPerWord == Div(I(letterCount(t, TRUE)), I(lexiconCount(t, TRUE)))
    IN  orZero(legacyRound(lettersPerWord, 2))

averageSentencePerWord(t) ==
    LET sentencesPerWord == Div(I(sentenceCount(t)), I(lexiconCount(t, TRUE)))
    IN  orZero(legacyRound(sentencesPerWord, 2))

-----------------------------------------------------------------------------
(* Formulas *)

fleschReadingEase(t) ==
    LET sentenceLength == averageSentenceLength(t)
        syllablesPerWord == averageSyllablePerWord(t)
        flesch == Sub(Sub(Dec(206835, 3), Mul(Dec(1015, 3), sentenceLength)),
                      Mul(Dec(846, 1), syllablesPerWord))
    IN  legacyRound(flesch, 2)

\* the table with each boundary in the interval below it: (90, 100] -> 5
fleschReadingEaseToGradeClosedAbove(score) ==
    IF Le(score, I(100)) /\ Gt(score, I(90)) THEN I(5)
    ELSE IF Le(score, I(90)) /\ Gt(score, I(80)) THEN I(6)
    ELSE IF Le(score, I(80)) /\ Gt(score, I(70)) THEN I(7)
    ELSE IF Le(score, I(70)) /\ Gt(score, I(60)) THEN Dec(85, 1)
    ELSE IF Le(score, I(60)) /\ Gt(score, I(50)) THEN I(11)
    ELSE IF Le(score, I(50)) /\ Gt(score, I(40)) THEN I(13)
    ELSE IF Le(score, I(40)) /\ Gt(score, I(30)) THEN I(15)
    ELSE I(16)

fleschReadingEaseToGrade(score) ==
    IF Lt(score, I(100)) /\ Ge(score, I(90)) THEN I(5)
    ELSE IF Lt(score, I(90)) /\ Ge(score, I(80)) THEN I(6)
    ELSE IF Lt(score, I(80)) /\ Ge(score, I(70)) THEN I(7)
    ELSE IF Lt(score, I(70)) /\ Ge(score, I(60)) THEN Dec(85, 1)
    ELSE IF Lt(score, I(60)) /\ Ge(score, I(50)) THEN I(11)
    ELSE IF Lt(score, I(50)) /\ Ge(score, I(40)) THEN I(13)
    ELSE IF Lt(score, I(40)) /\ Ge(score, I(30)) THEN I(15)
    ELSE I(16)

fleschKincaidGrade(t) ==
    LET sentenceLength == averageSentenceLength(t)
        syllablePerWord == averageSyllablePerWord(t)
        flesch == Sub(Add(Mul(Dec(39, 2), sentenceLength),
                          Mul(Dec(118, 1), syllablePerWord)), Dec(1559, 2))
    IN  legacyRound(flesch, 1)

polySyllableCount(t) ==
    LET words == split(t)
    IN  Cardinality({i \in 1..Len(words) : syllableCount(words[i]) >= 3})

\* whether (1000 * m - 31791) / 10430 <= sqrt(30 * polySyllab / sentences),
\* that is whether m <= 10 * (1.043 * sqrt(..) + 3.1291) + 0.5, for m >= 32:
\* with A = 1000 * m - 31791, A * A * sentences <= 30 * 10430 * 10430 *
\* polySyllab, computed without leaving 32 bits
SmogReaches(m, polySyllab, sentences) ==
    LET A == 1000 * m - 31791
        q == (312900 * polySyllab) \div A
        r == (312900 * polySyllab) % A
    IN  A * sentences <= q * 10430 + (r * 10430) \div A

RECURSIVE SmogTenths(_, _, _)
SmogTenths(m, polySyllab, sentences) ==
    IF SmogReaches(m + 1, polySyllab, sentences)
    THEN SmogTenths(m + 1, polySyllab, sentences) ELSE m

\* Math.legacyRound(1.043 * (30 * (polySyllab / sentences)) ** 0.5 + 3.1291, 1):
\* the square root is irrational in general, so the rounded value is computed
\* as the largest number of tenths m with m <= 10 * smog + 0.5 (smog >= 3.1291)
roundedSmog(polySyllab, sentences) == Fin(SmogTenths(31, polySyllab, sentences), 10)

\* smogIndex without the test of the number of sentences
smogIndexAnySentences(t) ==
    orZero(roundedSmog(polySyllableCount(t), sentenceCount(t)))

smogIndex(t) ==
    LET sentences == sentenceCount(t)
    IN  IF sentences >= 3
        THEN orZero(roundedSmog(polySyllableCount(t), sentences))
        ELSE Zero

colemanLiauIndex(t) ==
    LET letters == legacyRound(Mul(averageLetterPerWord(t), I(100)), 2)
        sentences == legacyRound(Mul(averageSentencePerWord(t), I(100)), 2)
        coleman == Sub(Sub(Mul(Dec(58, 3), letters), Mul(Dec(296, 3), sentences)),
                       Dec(158, 1))
    IN  legacyRound(coleman, 2)

automatedReadabilityIndex(t) ==
    LET characters == I(charCount(t, TRUE))
        words == I(lexiconCount(t, TRUE))
        sentences == I(sentenceCount(t))
        averageCharacterPerWordRaw == Div(characters, words)
        averageWordPerSentence == Div(words, sentences)
        readability == Sub(Add(Mul(Dec(471, 2), legacyRound(averageCharacterPerWordRaw, 2)),
                               Mul(Dec(5, 1), legacyRound(averageWordPerSentence, 2))),
                           Dec(2143, 2))
    IN  orZero(legacyRound(readability, 1))

\* textList.join(' ')
RECURSIVE join(_, _)
join(ws, i) ==
    IF i > Len(ws) THEN <<>>
    ELSE IF i = Len(ws) THEN ws[i]
    ELSE ws[i] \o <<" ">> \o join(ws, i + 1)

linsearWriteFormula(t) ==
    LET all == split(t)
        textList == Slice(all, 0, IF Len(all) < 100 THEN Len(all) ELSE 100)
        easyWord == Cardinality({i \in 1..Len(textList) : syllableCount(textList[i]) < 3})
        difficultWord == Len(textList) - easyWord
        number == Div(I(easyWord * 1 + difficultWord * 3),
                      I(sentenceCount(join(textList, 1))))
        returnVal == IF Le(number, I(20)) THEN Div(Sub(number, I(2)), I(2))
                     ELSE Div(number, I(2))
    IN  orZero(legacyRound(returnVal, 1))

daleChallReadabilityScore(t) ==
    LET wordCount == lexiconCount(t, TRUE)
        count == wordCount - difficultWords(t, 2)
        per == Mul(Div(I(count), I(wordCount)), I(100))
        difficult == Sub(I(100), per)
        score == Add(Mul(Dec(1579, 4), difficult),
                     Mul(Dec(496, 4), averageSentenceLength(t)))
    IN  IF IsNaN(per) THEN Zero
        ELSE legacyRound(IF Gt(difficult, I(5)) THEN Add(score, Dec(36365, 4))
                         ELSE score, 2)

daleChallToGrade(score) ==
    IF Le(score, Dec(49, 1)) THEN I(4)
    ELSE IF Lt(score, Dec(59, 1)) THEN I(5)
    ELSE IF Lt(score, Dec(69, 1)) THEN I(7)
    ELSE IF Lt(score, Dec(79, 1)) THEN I(9)
    ELSE IF Lt(score, Dec(89, 1)) THEN I(11)
    ELSE IF Lt(score, Dec(99, 1)) THEN I(13)
    ELSE I(16)

gunningFog(t) ==
    LET perDiffWords == Mul(Div(I(difficultWords(t, 3)), I(lexiconCount(t, TRUE))), I(100))
        gradeVal == Mul(Dec(4, 1), Add(averageSentenceLength(t), perDiffWords))
    IN  orZero(legacyRound(gradeVal, 2))

longWords(words) == Cardinality({i \in 1..Len(words) : Len(words[i]) > 6})

lix(t) ==
    LET words == split(t)
        wordsLen == Len(words)
        perLongWords == Div(I(longWords(words) * 100), I(wordsLen))
        asl == averageSentenceLength(t)
    IN  legacyRound(Add(asl, perLongWords), 2)

rix(t) ==
    LET words == split(t)
        rixVal == Div(I(longWords(words)), I(sentenceCount(t)))
    IN  IF ~IsNaN(rixVal) THEN legacyRound(rixVal, 2) ELSE Zero

-----------------------------------------------------------------------------
(* Returned values, and strings built from numbers *)

None == [t |-> "undefined", v |-> <<>>]

Number(x) == [t |-> "number", v |-> x]

String(str) == [t |-> "string", v |-> str]

DigitChars == <<"0", "1", "2", "3", "4", "5", "6", "7", "8", "9">>

RECURSIVE NatToString(_)
NatToString(i) ==
    IF i < 10 THEN <<DigitChars[i + 1]>>
    ELSE NatToString(i \div 10) \o <<DigitChars[(i % 10) + 1]>>

\* `${x}` for the values that reach it: an integer, NaN or an infinity
NumberToString(x) ==
    IF IsNaN(x) THEN <<"N", "a", "N">>
    ELSE IF x.k = "inf"
         THEN (IF x.n < 0 THEN <<"-">> ELSE <<>>) \o <<"I", "n", "f", "i", "n", "i", "t", "y">>
    ELSE IF x.n < 0 THEN <<"-">> \o NatToString(-x.n)
    ELSE NatToString(x.n)

\* the grammatical ordinal suffix: "st" for 21, "nd" for 22, "th" for 11 to 13
getGradeSuffixOrdinal(g) ==
    LET floored == Floor(g)
        n == AbsInt(floored.n)
    IN  IF ~IsFinite(floored) \/ (n % 100) \in 11..13 THEN <<"t", "h">>
        ELSE IF n % 10 = 1 THEN <<"s", "t">>
        ELSE IF n % 10 = 2 THEN <<"n", "d">>
        ELSE IF n % 10 = 3 THEN <<"r", "d">>
        ELSE <<"t", "h">>

getGradeSuffix(g) ==
    LET floored == Floor(g)
    IN  IF floored = I(1) THEN <<"s", "t">>
        ELSE IF floored = I(2) THEN <<"n", "d">>
        ELSE IF floored = I(3) THEN <<"r", "d">>
        ELSE <<"t", "h">>

-----------------------------------------------------------------------------
(* Aggregators *)

\* the two votes of one formula: Math.floor(Math.legacyRound(score)) and
\* Math.floor(Math.ceil(score))
lowerUpper(score) == <<Floor(legacyRound(score, 0)), Floor(Ceil(score))>>

\* textStandard splitting the Flesch-Reading-Ease grade into two votes as well
standardGradesSplitAll(t) ==
    lowerUpper(fleschKincaidGrade(t))
    \o lowerUpper(fleschReadingEaseToGrade(fleschReadingEase(t)))
    \o lowerUpper(smogIndex(t))
    \o lowerUpper(colemanLiauIndex(t))
    \o lowerUpper(automatedReadabilityIndex(t))
    \o lowerUpper(daleChallToGrade(daleChallReadabilityScore(t)))
    \o lowerUpper(linsearWriteFormula(t))
    \o lowerUpper(gunningFog(t))

\* the array grade of textStandard, in the order of its pushes
standardGrades(t) ==
    lowerUpper(fleschKincaidGrade(t))
    \o <<fleschReadingEaseToGrade(fleschReadingEase(t))>>
    \o lowerUpper(smogIndex(t))
    \o lowerUpper(colemanLiauIndex(t))
    \o lowerUpper(automatedReadabilityIndex(t))
    \o lowerUpper(daleChallToGrade(daleChallReadabilityScore(t)))
    \o lowerUpper(linsearWriteFormula(t))
    \o lowerUpper(gunningFog(t))

\* [...new Set(g)]: the distinct values in the order of their first occurrence
\* (a Set holds NaN once)
RECURSIVE distinctValues(_, _, _)
distinctValues(g, i, acc) ==
    IF i > Len(g) THEN acc
    ELSE IF \E j \in 1..Len(acc) : acc[j] = g[i] THEN distinctValues(g, i + 1, acc)
    ELSE distinctValues(g, i + 1, Append(acc, g[i]))

\* the count with NaN taken as equal to NaN, as a Set takes it
countOfSameValue(g, x) == Cardinality({i \in 1..Len(g) : g[i] = x})

\* grade.filter(y => y === x).length
countOf(g, x) == Cardinality({i \in 1..Len(g) : StrictEq(g[i], x)})

counterMap(g) ==
    LET values == distinctValues(g, 1, <<>>)
    IN  [i \in 1..Len(values) |-> <<values[i], countOf(g, values[i])>>]

\* the fold with > for >=: the earlier of two tied values wins
keepEarlier(x, y) == IF y[2] > x[2] THEN y ELSE x

\* (x, y) => y[1] >= x[1] ? y : x
keepLater(x, y) == IF y[2] >= x[2] THEN y ELSE x

\* cm.reduce(keepLater) with no initial value, from the entry after index i on
RECURSIVE reduceFrom(_, _, _)
reduceFrom(cm, i, x) ==
    IF i > Len(cm) THEN x ELSE reduceFrom(cm, i + 1, keepLater(x, cm[i]))

finalGrade(g) == LET cm == counterMap(g) IN reduceFrom(cm, 2, cm[1])

\* textStandard naming the grades g and g+1 instead of g-1 and g
standardResultOneUp(score, floatOutput) ==
    IF floatOutput = "true" THEN Number(score)
    ELSE LET lowerScore == Floor(score)
             upperScore == Add(lowerScore, I(1))
         IN  String(NumberToString(lowerScore) \o getGradeSuffix(lowerScore)
                    \o <<" ", "a", "n", "d", " ">>
                    \o NumberToString(upperScore) \o getGradeSuffix(upperScore)
                    \o <<" ", "g", "r", "a", "d", "e">>)

\* what textStandard returns for the winning score
standardResult(score, floatOutput) ==
    IF floatOutput = "true" THEN Number(score)
    ELSE LET lowerScore == Sub(Floor(score), I(1))
             upperScore == Add(lowerScore, I(1))
         IN  String(NumberToString(lowerScore) \o getGradeSuffix(lowerScore)
                    \o <<" ", "a", "n", "d", " ">>
                    \o NumberToString(upperScore) \o getGradeSuffix(upperScore)
                    \o <<" ", "g", "r", "a", "d", "e">>)

\* the array grade of textMedian, in the order of its pushes
medianGrades(t) ==
    <<fleschKincaidGrade(t),
      fleschReadingEaseToGrade(fleschReadingEase(t)),
      smogIndex(t),
      colemanLiauIndex(t),
      automatedReadabilityIndex(t),
      daleChallToGrade(daleChallReadabilityScore(t)),
      linsearWriteFormula(t),
      gunningFog(t)>>

\* insertion of x into an ascending sequence
RECURSIVE insertAsc(_, _, _)
insertAsc(s, x, i) ==
    IF i > Len(s) THEN Append(s, x)
    ELSE IF Lt(x, s[i]) THEN SubSeq(s, 1, i - 1) \o <<x>> \o SubSeq(s, i, Len(s))
    ELSE insertAsc(s, x, i + 1)

RECURSIVE sortAscending(_, _, _)
sortAscending(g, i, acc) ==
    IF i > Len(g) THEN acc ELSE sortAscending(g, i + 1, insertAsc(acc, g[i], 1))

\* what grade[index] can be after grade.sort((a, b) => a - b): the element of
\* the ascending order when every comparison is a number; with a NaN entry
\* a - b is NaN for some pairs, the comparator is not consistent and the order
\* is implementation-defined, so any entry can stand at the index
sortedAt(g, index) ==
    IF \E i \in 1..Len(g) : IsNaN(g[i]) THEN {g[i] : i \in 1..Len(g)}
    ELSE {sortAscending(g, 1, <<>>)[index + 1]}

\* what textMedian can return for the collected array g
medianResults(g) ==
    LET half == Len(g) \div 2
    IN  IF half % 2 = 1
        THEN {Div(Add(a, b), I(2)) : a \in sortedAt(g, half - 1), b \in sortedAt(g, half)}
        ELSE sortedAt(g, half)

-----------------------------------------------------------------------------
(* The caller: a text put together from at most MaxPieces pieces, and one
   method call at a time *)

MaxPieces == 3

Pieces == <<
    <<"I", " ", "g", "o", " ", "u", "p", ".", " ">>,
    <<"O", "p", "e", "r", "a", " ", "b", "a", "n", "a", "n", "a", " ", "i", "d", "e", "a", ".", " ">>,
    <<"r", "u", "n", "n", "i", "n", "g">>,
    <<"c", "a", "t">>,
    <<" ">>,
    <<"\n">>,
    <<"\r">>,
    <<"!", ")", " ">>>>

RECURSIVE Flatten(_, _)
Flatten(ps, i) == IF i > Len(ps) THEN <<>> ELSE Pieces[ps[i]] \o Flatten(ps, i + 1)

Texts == {Flatten(ps, 1) : ps \in UNION {[1..k -> 1..Len(Pieces)] : k \in 0..MaxPieces}}

Init ==
    /\ op = "idle"
    /\ text \in Texts
    /\ num = Zero
    /\ arg = <<>>
    /\ ret = None
    /\ grade = <<>>

\* a call of a method of one text argument that returns a number
Returns(name, args, value) ==
    /\ op = "idle"
    /\ op' = name
    /\ arg' = args
    /\ ret' = Number(value)
    /\ grade' = <<>>
    /\ UNCHANGED <<text, num>>

CharCount == \E ignoreSpaces \in BOOLEAN :
    Returns("charCount", <<ignoreSpaces>>, I(charCount(text, ignoreSpaces)))

LetterCount == \E ignoreSpaces \in BOOLEAN :
    Returns("letterCount", <<ignoreSpaces>>, I(letterCount(text, ignoreSpaces)))

LexiconCount == \E stripPunctuation \in BOOLEAN :
    Returns("lexiconCount", <<stripPunctuation>>, I(lexiconCount(text, stripPunctuation)))

SentenceCount == Returns("sentenceCount", <<>>, I(sentenceCount(text)))

AverageSentenceLength ==
    Returns("averageSentenceLength", <<>>, averageSentenceLength(text))

AverageSyllablePerWord ==
    Returns("averageSyllablePerWord", <<>>, averageSyllablePerWord(text))

AverageCharacterPerWord ==
    Returns("averageCharacterPerWord", <<>>, averageCharacterPerWord(text))

AverageLetterPerWord ==
    Returns("averageLetterPerWord", <<>>, averageLetterPerWord(text))

AverageSentencePerWord ==
    Returns("averageSentencePerWord", <<>>, averageSentencePerWord(text))

FleschReadingEase == Returns("fleschReadingEase", <<>>, fleschReadingEase(text))

FleschKincaidGrade == Returns("fleschKincaidGrade", <<>>, fleschKincaidGrade(text))

SmogIndex == Returns("smogIndex", <<>>, smogIndex(text))

ColemanLiauIndex == Returns("colemanLiauIndex", <<>>, colemanLiauIndex(text))

AutomatedReadabilityIndex ==
    Returns("automatedReadabilityIndex", <<>>, automatedReadabilityIndex(text))

LinsearWriteFormula == Returns("linsearWriteFormula", <<>>, linsearWriteFormula(text))

DaleChallReadabilityScore ==
    Returns("daleChallReadabilityScore", <<>>, daleChallReadabilityScore(text))

GunningFog == Returns("gunningFog", <<>>, gunningFog(text))

Lix == Returns("lix", <<>>, lix(text))

Rix == Returns("rix", <<>>, rix(text))

\* floatOutput is "true", "false" or "null" (the default)
TextStandard == \E floatOutput \in {"true", "false", "null"} :
    /\ op = "idle"
    /\ op' = "textStandard"
    /\ arg' = <<floatOutput>>
    /\ grade' = standardGrades(text)
    /\ ret' = standardResult(finalGrade(grade')[1], floatOutput)
    /\ UNCHANGED <<text, num>>

TextMedian ==
    /\ op = "idle"
    /\ op' = "textMedian"
    /\ arg' = <<>>
    /\ grade' = medianGrades(text)
    /\ \E median \in medianResults(grade') : ret' = Number(median)
    /\ UNCHANGED <<text, num>>

\* the call returns to the caller, who keeps the text
Return ==
    /\ op # "idle"
    /\ op' = "idle"
    /\ arg' = <<>>
    /\ ret' = None
    /\ grade' = <<>>
    /\ UNCHANGED <<text, num>>

Next ==
    \/ CharCount
    \/ LetterCount
    \/ LexiconCount
    \/ SentenceCount
    \/ AverageSentenceLength
    \/ AverageSyllablePerWord
    \/ AverageCharacterPerWord
    \/ AverageLetterPerWord
    \/ AverageSentencePerWord
    \/ FleschReadingEase
    \/ FleschKincaidGrade
    \/ SmogIndex
    \/ ColemanLiauIndex
    \/ AutomatedReadabilityIndex
    \/ LinsearWriteFormula
    \/ DaleChallReadabilityScore
    \/ GunningFog
    \/ Lix
    \/ Rix
    \/ TextStandard
    \/ TextMedian
    \/ Return

Spec == Init /\ [][Next]_vars

-----------------------------------------------------------------------------
(* The caller of Math.legacyRound: a number j/200 and a precision *)

MaxNumerator == 600

MaxPoints == 2

Numbers == {Fin(j, 200) : j \in -MaxNumerator..MaxNumerator}

InitRound ==
    /\ op = "idle"
    /\ text = <<>>
    /\ num \in Numbers
    /\ arg = <<>>
    /\ ret = None
    /\ grade = <<>>

\* points defaults to 0
LegacyRound == \E points \in 0..MaxPoints :
    /\ op = "idle"
    /\ op' = "legacyRound"
    /\ arg' = <<points>>
    /\ ret' = Number(legacyRound(num, points))
    /\ grade' = <<>>
    /\ UNCHANGED <<text, num>>

NextRound ==
    \/ LegacyRound
    \/ Return

SpecRound == InitRound /\ [][NextRound]_vars

-----------------------------------------------------------------------------
(* The caller of the word-level methods: a text put together from at most
   MaxWordPieces pieces, a syllable threshold of at most MaxThreshold *)

MaxWordPieces == 3

MaxThreshold == 4

WordPieces == <<
    <<"b", "a", "n", "a", "n", "a", " ">>,
    <<"B", "a", "n", "a", "n", "a", " ">>,
    <<"i", "d", "e", "a", " ">>,
    <<"c", "a", "t", "s", " ">>,
    <<"o", "p", "e", "r", "a", "-">>,
    <<"e", "d", "u", "c", "a", "t", "i", "o", "n", ".", " ">>,
    <<"!", " ">>,
    <<"f", "o", "r", "c", "e", "d", " ">>>>

\* the pieces of the list at the indices ps, from the i-th on, one after another
RECURSIVE Concat(_, _, _)
Concat(list, ps, i) ==
    IF i > Len(ps) THEN <<>> ELSE list[ps[i]] \o Concat(list, ps, i + 1)

WordTexts ==
    {Concat(WordPieces, ps, 1) :
        ps \in UNION {[1..k -> 1..Len(WordPieces)] : k \in 0..MaxWordPieces}}

InitWords ==
    /\ op = "idle"
    /\ text \in WordTexts
    /\ num = Zero
    /\ arg = <<>>
    /\ ret = None
    /\ grade = <<>>

RemovePunctuation ==
    /\ op = "idle"
    /\ op' = "removePunctuation"
    /\ arg' = <<>>
    /\ ret' = String(removePunctuation(text))
    /\ grade' = <<>>
    /\ UNCHANGED <<text, num>>

\* syllableThreshold defaults to 2
DifficultWords == \E syllableThreshold \in 1..MaxThreshold :
    Returns("difficultWords", <<syllableThreshold>>,
            I(difficultWords(text, syllableThreshold)))

PolySyllableCount == Returns("polySyllableCount", <<>>, I(polySyllableCount(text)))

NextWords ==
    \/ RemovePunctuation
    \/ DifficultWords
    \/ PolySyllableCount
    \/ LexiconCount
    \/ Lix
    \/ Return

SpecWords == InitWords /\ [][NextWords]_vars

-----------------------------------------------------------------------------
(* The caller of presentTense: a lower-case word, a stem followed by at most
   MaxSuffixes endings *)

MaxSuffixes == 2

Stems == <<
    <<"r", "u", "n">>,
    <<"s", "w", "i", "m">>,
    <<"e", "a", "t">>,
    <<"l", "i", "k", "e">>,
    <<"f", "o", "r", "c">>,
    <<"j", "u", "m", "p">>,
    <<"w", "a", "l", "k">>>>

Suffixes == <<
    <<"n">>,
    <<"m">>,
    <<"e">>,
    <<"d">>,
    <<"e", "d">>,
    <<"i", "n", "g">>,
    <<"s">>>>

TenseWords ==
    {Stems[i] \o Concat(Suffixes, ss, 1) :
        i \in 1..Len(Stems),
        ss \in UNION {[1..k -> 1..Len(Suffixes)] : k \in 0..MaxSuffixes}}

InitTense ==
    /\ op = "idle"
    /\ text \in TenseWords
    /\ num = Zero
    /\ arg = <<>>
    /\ ret = None
    /\ grade = <<>>

\* presentTense(word), the word being the caller's text
PresentTense ==
    /\ op = "idle"
    /\ op' = "presentTense"
    /\ arg' = <<>>
    /\ ret' = String(presentTense(text))
    /\ grade' = <<>>
    /\ UNCHANGED <<text, num>>

NextTense ==
    \/ PresentTense
    \/ Return

SpecTense == InitTense /\ [][NextTense]_vars

-----------------------------------------------------------------------------
(* The caller of Readability.getGradeSuffix: a grade in quarters up to
   MaxGrade in magnitude, NaN or an infinity *)

MaxGrade == 24

Grades == {Fin(j, 4) : j \in (-4 * MaxGrade)..(4 * MaxGrade)} \cup {NaN, PosInf, NegInf}

InitSuffix ==
    /\ op = "idle"
    /\ text = <<>>
    /\ num \in Grades
    /\ arg = <<>>
    /\ ret = None
    /\ grade = <<>>

GetGradeSuffix ==
    /\ op = "idle"
    /\ op' = "getGradeSuffix"
    /\ arg' = <<>>
    /\ ret' = String(getGradeSuffix(num))
    /\ grade' = <<>>
    /\ UNCHANGED <<text, num>>

NextSuffix ==
    \/ GetGradeSuffix
    \/ Return

SpecSuffix == InitSuffix /\ [][NextSuffix]_vars

-----------------------------------------------------------------------------
(* The caller of fleschReadingEaseToGrade: a score in halves up to MaxScore in
   magnitude, NaN or an infinity *)

MaxScore == 125

Scores == {Fin(j, 2) : j \in (-2 * MaxScore)..(2 * MaxScore)} \cup {NaN, PosInf, NegInf}

InitScore ==
    /\ op = "idle"
    /\ text = <<>>
    /\ num \in Scores
    /\ arg = <<>>
    /\ ret = None
    /\ grade = <<>>

FleschReadingEaseToGrade ==
    /\ op = "idle"
    /\ op' = "fleschReadingEaseToGrade"
    /\ arg' = <<>>
    /\ ret' = Number(fleschReadingEaseToGrade(num))
    /\ grade' = <<>>
    /\ UNCHANGED <<text, num>>

NextScore ==
    \/ FleschReadingEaseToGrade
    \/ Return

SpecScore == InitScore /\ [][NextScore]_vars

-----------------------------------------------------------------------------
(* Properties *)

\* /^-?\d+(st|nd|rd|th)/ tried at index i of s: the index after the match, 0
\* when there is none
OrdinalEnd(s, i) ==
    LET j == IF i <= Len(s) /\ s[i] = "-" THEN i + 1 ELSE i
        k == j + Run(s, j, Digits)
    IN  IF /\ k > j
           /\ k + 1 <= Len(s)
           /\ <<s[k], s[k + 1]>> \in {<<"s", "t">>, <<"n", "d">>, <<"r", "d">>, <<"t", "h">>}
        THEN k + 2 ELSE 0

\* s.slice(i - 1, i - 1 + Len(w)) = w
HasAt(s, i, w) == i + Len(w) - 1 <= Len(s) /\ SubSeq(s, i, i + Len(w) - 1) = w

\* /^-?\d+(st|nd|rd|th) and -?\d+(st|nd|rd|th) grade$/
MatchesGradeRange(s) ==
    LET a == OrdinalEnd(s, 1)
        b == IF a # 0 /\ HasAt(s, a, <<" ", "a", "n", "d", " ">>)
             THEN OrdinalEnd(s, a + 5) ELSE 0
    IN  b # 0 /\ HasAt(s, b, <<" ", "g", "r", "a", "d", "e">>) /\ b + 5 = Len(s)

\* "{g-1}{suffix(g-1)} and {g}{suffix(g)} grade"
GradeRange(g) ==
    NumberToString(Sub(g, I(1))) \o getGradeSuffix(Sub(g, I(1)))
    \o <<" ", "a", "n", "d", " ">>
    \o NumberToString(g) \o getGradeSuffix(g)
    \o <<" ", "g", "r", "a", "d", "e">>

\* C1: textStandard(text, true) returns a number; with the flag false or left
\* out it returns the string "{g-1}{suffix(g-1)} and {g}{suffix(g)} grade" for
\* g the floor of the winning grade, and that string matches
\* /^-?\d+(st|nd|rd|th) and -?\d+(st|nd|rd|th) grade$/.
TextStandardShape ==
    op = "textStandard" =>
        IF arg[1] = "true" THEN ret.t = "number"
        ELSE /\ ret.t = "string"
             /\ ret.v = GradeRange(Floor(finalGrade(grade)[1]))
             /\ MatchesGradeRange(ret.v)

\* C1 witness: a default call whose string names a negative grade
TextStandardShapeWitness ==
    /\ op = "textStandard"
    /\ arg = <<"null">>
    /\ ret = String(<<"-", "1", "t", "h", " ", "a", "n", "d", " ", "0", "t", "h", " ", "g", "r", "a", "d", "e">>)

\* the index of the first occurrence of x in g
firstIndex(g, x) == CHOOSE i \in 1..Len(g) : g[i] = x /\ \A j \in 1..(i - 1) : g[j] # x

\* w is a value of g of maximal count and, among the values of that count, the
\* one that occurs first the latest; the count of a value is the number of
\* entries === to it, so a NaN entry counts for no value
ModeLastWins(g, w) ==
    /\ \E i \in 1..Len(g) : g[i] = w
    /\ \A i \in 1..Len(g) : countOf(g, g[i]) <= countOf(g, w)
    /\ \A i \in 1..Len(g) :
          countOf(g, g[i]) = countOf(g, w) => firstIndex(g, g[i]) <= firstIndex(g, w)

\* C2: textStandard selects a vote value of maximal count, and of two or more
\* values tied for the maximal count the one encountered later in the order of
\* first occurrence; its result is built from that value.
TextStandardMode ==
    op = "textStandard" =>
        \E i \in 1..Len(grade) :
            /\ ModeLastWins(grade, grade[i])
            /\ ret = standardResult(grade[i], arg[1])

\* C2 witness: two distinct values tie for the maximal count
TextStandardModeWitness ==
    /\ op = "textStandard"
    /\ \E i, j \in 1..Len(grade) :
          /\ grade[i] # grade[j]
          /\ countOf(grade, grade[i]) = countOf(grade, grade[j])
          /\ \A k \in 1..Len(grade) : countOf(grade, grade[k]) <= countOf(grade, grade[i])

\* floor(legacyRound(score)) and floor(ceil(score))
FloorVote(score) == Floor(legacyRound(score, 0))

CeilVote(score) == Floor(Ceil(score))

\* C3: the vote list of textStandard has exactly 15 entries: the floor vote and
\* the ceiling vote of Flesch-Kincaid Grade, SMOG, Coleman-Liau, ARI, the
\* Dale-Chall grade, Linsear Write and Gunning Fog, and the Flesch-Reading-Ease
\* grade once, as it is.
TextStandardVotes ==
    op = "textStandard" =>
        LET fk == fleschKincaidGrade(text)
            smog == smogIndex(text)
            coleman == colemanLiauIndex(text)
            ari == automatedReadabilityIndex(text)
            dale == daleChallToGrade(daleChallReadabilityScore(text))
            linsear == linsearWriteFormula(text)
            fog == gunningFog(text)
        IN  /\ Len(grade) = 15
            /\ grade = <<FloorVote(fk), CeilVote(fk),
                         fleschReadingEaseToGrade(fleschReadingEase(text)),
                         FloorVote(smog), CeilVote(smog),
                         FloorVote(coleman), CeilVote(coleman),
                         FloorVote(ari), CeilVote(ari),
                         FloorVote(dale), CeilVote(dale),
                         FloorVote(linsear), CeilVote(linsear),
                         FloorVote(fog), CeilVote(fog)>>

\* C3 witness: a vote list whose Flesch-Reading-Ease entry is the half-integer
\* 8.5, not split into a floor and a ceiling
TextStandardVotesWitness ==
    /\ op = "textStandard"
    /\ Len(grade) = 15
    /\ grade[3] = Dec(85, 1)

\* v is the 5th smallest of g: at most 4 entries are below it and at least 5
\* are not above it
FifthSmallest(g, v) ==
    /\ \E i \in 1..Len(g) : g[i] = v
    /\ Cardinality({i \in 1..Len(g) : Lt(g[i], v)}) <= 4
    /\ Cardinality({i \in 1..Len(g) : Le(g[i], v)}) >= 5

\* C4: textMedian collects 8 scores and returns the 5th smallest of them (the
\* element at index 4 of the ascending order), never an average.
TextMedianFifthSmallest ==
    op = "textMedian" => Len(grade) = 8 /\ FifthSmallest(grade, ret.v)

\* the segments of sentenceCount with more than 2 words
ValidSegments(t) ==
    LET sentences == splitSentences(t)
    IN  {i \in 1..Len(sentences) : lexiconCount(sentences[i], TRUE) > 2}

\* C5: sentenceCount(text) >= 1; it is the number of sentence-split segments
\* of more than 2 words, and 1 when there is none.
SentenceCountAtLeastOne ==
    op = "sentenceCount" =>
        /\ Ge(ret.v, I(1))
        /\ ret.v = I(IF ValidSegments(text) = {} THEN 1
                     ELSE Cardinality(ValidSegments(text)))

\* C5 witness: a text of two words, whose only segment is not counted
SentenceCountAtLeastOneWitness ==
    /\ op = "sentenceCount"
    /\ lexiconCount(text, TRUE) = 2
    /\ ValidSegments(text) = {}
    /\ ret = Number(I(1))

GuardedFormulas == {"smogIndex", "colemanLiauIndex", "automatedReadabilityIndex",
                    "linsearWriteFormula", "daleChallReadabilityScore", "gunningFog",
                    "lix", "rix"}

\* C6: none of smogIndex, colemanLiauIndex, automatedReadabilityIndex,
\* linsearWriteFormula, daleChallReadabilityScore, gunningFog, lix and rix
\* returns NaN.
NoFormulaReturnsNaN == op \in GuardedFormulas => ~IsNaN(ret.v)

\* the empty text and the texts of spaces, newlines and carriage returns only
Blank(t) == \A i \in 1..Len(t) : t[i] \in {" ", "\n", "\r"}

RatioFormulas == GuardedFormulas \cup {"fleschReadingEase", "fleschKincaidGrade"}

\* C7: for the empty text and every whitespace-only text each ratio-based
\* formula returns 0.0.
BlankTextScoresZero == (op \in RatioFormulas /\ Blank(text)) => ret = Number(Zero)

\* the call is one of charCount(text), letterCount(text), lexiconCount(text)
\* with the default flag
DefaultCount(name) == op = name /\ arg = <<TRUE>>

\* C8 as stated: for the empty text and every whitespace-only text
\* lexiconCount, letterCount and charCount return 0 and sentenceCount returns
\* 1; lexiconCount(text) >= 0 for every text.
BlankTextCountsZero ==
    /\ Blank(text) =>
          /\ (DefaultCount("lexiconCount") \/ DefaultCount("letterCount")
                \/ DefaultCount("charCount")) => ret = Number(Zero)
          /\ op = "sentenceCount" => ret = Number(I(1))
    /\ op = "lexiconCount" => Ge(ret.v, Zero)

\* the characters of t other than the space
NonSpaces(t) == Cardinality({i \in 1..Len(t) : t[i] # " "})

\* C8 amended: for the empty text and every whitespace-only text lexiconCount
\* returns 0 and sentenceCount returns 1, and charCount and letterCount return
\* the number of newlines and carriage returns of the text, which is 0 for the
\* empty text and the texts of spaces only; lexiconCount(text) >= 0 for every
\* text.
BlankTextCounts ==
    /\ Blank(text) =>
          /\ DefaultCount("lexiconCount") => ret = Number(Zero)
          /\ (DefaultCount("letterCount") \/ DefaultCount("charCount")) =>
                ret = Number(I(NonSpaces(text)))
          /\ op = "sentenceCount" => ret = Number(I(1))
    /\ op = "lexiconCount" => Ge(ret.v, Zero)

\* C8 witness: the letter count of a text of a space and a newline is 1
BlankTextCountsWitness ==
    /\ text = <<" ", "\n">>
    /\ DefaultCount("letterCount")
    /\ ret = Number(I(1))

Averages == {"averageSentenceLength", "averageSyllablePerWord",
             "averageCharacterPerWord", "averageLetterPerWord",
             "averageSentencePerWord"}

\* C9: none of the five averages returns NaN, and each returns 0.0 for a text
\* of zero words, where it divides zero or divides by zero.
AveragesNeverNaN ==
    op \in Averages =>
        /\ ~IsNaN(ret.v)
        /\ lexiconCount(text, TRUE) = 0 => ret.v = Zero

\* C9 witness: averageCharacterPerWord of a newline, 1 character over 0 words
AveragesNeverNaNWitness ==
    /\ op = "averageCharacterPerWord"
    /\ text = <<"\n">>
    /\ ret = Number(Zero)

\* r is x rounded to n decimals, half away from zero: a multiple of 10^-n at
\* most half a unit from x and, when exactly half a unit from it, the one of
\* larger magnitude
HalfAwayFromZero(x, n, r) ==
    LET unit == Fin(1, PowInt(10, n))
        distance == Abs(Sub(r, x))
    IN  /\ IsFinite(r)
        /\ Div(r, unit).d = 1
        /\ Le(Mul(distance, I(2)), unit)
        /\ Mul(distance, I(2)) = unit => Gt(Abs(r), Abs(x))

\* C10: for every finite x and every n >= 0, legacyRound(x, n) is x rounded to
\* n decimals half away from zero.
LegacyRoundHalfAwayFromZero ==
    op = "legacyRound" => HalfAwayFromZero(num, arg[1], ret.v)

\* C11: legacyRound is idempotent at the same precision: for every finite x
\* and every n >= 0, legacyRound(legacyRound(x, n), n) = legacyRound(x, n).
LegacyRoundIdempotent ==
    op = "legacyRound" => StrictEq(legacyRound(ret.v, arg[1]), ret.v)

\* C12: every formula counts words by the same tokenization: the number of
\* words lix and polySyllableCount see (Readability.split of the raw text) and
\* the number of tokens difficultWords scans equal lexiconCount(text).
SameTokenization ==
    /\ op \in {"lix", "polySyllableCount"} =>
          Len(split(text)) = lexiconCount(text, TRUE)
    /\ op = "difficultWords" => Len(matchWords(text)) = lexiconCount(text, TRUE)

\* C13 as stated: for a fixed text difficultWords(text, t) is non-decreasing in
\* the syllable threshold t: for all t1 <= t2 in {2, 3, 4},
\* difficultWords(text, t1) <= difficultWords(text, t2).
DifficultWordsNonDecreasing ==
    (op = "difficultWords" /\ arg[1] >= 2) =>
        \A t2 \in arg[1]..MaxThreshold : Le(ret.v, I(difficultWords(text, t2)))

\* C13 amended: for a fixed text difficultWords(text, t) is non-increasing in
\* the syllable threshold t: for all t1 <= t2, difficultWords(text, t1) >=
\* difficultWords(text, t2); raising the threshold never adds a word.
DifficultWordsNonIncreasing ==
    op = "difficultWords" =>
        \A t2 \in arg[1]..MaxThreshold :
            /\ Ge(ret.v, I(difficultWords(text, t2)))
            /\ diffWordsSet(text, t2) \subseteq diffWordsSet(text, arg[1])

\* C13 witness: 3 difficult words at threshold 2, of which 1 is left at 4
DifficultWordsNonIncreasingWitness ==
    /\ op = "difficultWords"
    /\ arg = <<2>>
    /\ ret = Number(I(3))
    /\ difficultWords(text, 4) = 1

\* lo <= x < lo + 1
InUnit(x, lo) == Ge(x, I(lo)) /\ Lt(x, I(lo + 1))

\* C14: getGradeSuffix(grade) returns "st", "nd", "rd" only when the floor of
\* the grade is exactly 1, 2, 3 respectively, and "th" for every other value,
\* 0, the negative grades, 11 to 13 and 21 to 23 included.
GradeSuffixOfFloor ==
    op = "getGradeSuffix" =>
        ret = String(IF InUnit(num, 1) THEN <<"s", "t">>
                     ELSE IF InUnit(num, 2) THEN <<"n", "d">>
                     ELSE IF InUnit(num, 3) THEN <<"r", "d">>
                     ELSE <<"t", "h">>)

\* C14 witness: getGradeSuffix(21) = "th"
GradeSuffixOfFloorWitness ==
    /\ op = "getGradeSuffix"
    /\ num = I(21)
    /\ ret = String(<<"t", "h">>)

\* C15: presentTense returns the base form its documentation states:
\* presentTense('running') = 'run', presentTense('swimming') = 'swim',
\* presentTense('eating') = 'eat', none of 'runne', 'swimme', 'eate' being in
\* the easy-word dictionary.
PresentTenseExamples ==
    (/\ op = "presentTense"
     /\ {<<"r", "u", "n", "n", "e">>, <<"s", "w", "i", "m", "m", "e">>,
         <<"e", "a", "t", "e">>} \cap easyWordSet = {}) =>
        /\ text = <<"r", "u", "n", "n", "i", "n", "g">> => ret = String(<<"r", "u", "n">>)
        /\ text = <<"s", "w", "i", "m", "m", "i", "n", "g">> => ret = String(<<"s", "w", "i", "m">>)
        /\ text = <<"e", "a", "t", "i", "n", "g">> => ret = String(<<"e", "a", "t">>)

Liked == <<"l", "i", "k", "e", "d">>

\* C16 as stated: with "like" in the easy-word dictionary presentTense("liked")
\* resolves through the "ed" branch and returns "like".
LikedResolvesToLike ==
    (op = "presentTense" /\ text = Liked /\ <<"l", "i", "k", "e">> \in easyWordSet) =>
        ret = String(<<"l", "i", "k", "e">>)

\* C16 amended: presentTense("liked") returns "liked" unchanged, the word
\* having fewer than 6 characters; the dictionary-aware "ed" branch resolves
\* the words of 6 or more characters: with "force" in the dictionary
\* presentTense("forced") returns "force".
LikedReturnedUnchanged ==
    (op = "presentTense" /\ {<<"l", "i", "k", "e">>, <<"f", "o", "r", "c", "e">>} \subseteq easyWordSet) =>
        /\ text = Liked => ret = String(Liked)
        /\ text = <<"f", "o", "r", "c", "e", "d">> => ret = String(<<"f", "o", "r", "c", "e">>)

\* C16 witness: presentTense("liked") has returned "liked"
LikedReturnedUnchangedWitness ==
    /\ op = "presentTense"
    /\ text = Liked
    /\ <<"l", "i", "k", "e">> \in easyWordSet
    /\ ret = String(Liked)

\* C17: removePunctuation is idempotent: removePunctuation(removePunctuation(s))
\* = removePunctuation(s) for every string s, and the result holds no character
\* of the punctuation class.
RemovePunctuationIdempotent ==
    op = "removePunctuation" =>
        /\ removePunctuation(ret.v) = ret.v
        /\ \A i \in 1..Len(ret.v) : ret.v[i] \notin Punct

\* C17 witness: a text with two punctuation characters, both removed
RemovePunctuationIdempotentWitness ==
    /\ op = "removePunctuation"
    /\ Cardinality({i \in 1..Len(text) : text[i] \in Punct}) = 2
    /\ Len(ret.v) = Len(text) - 2

\* the form of a token that the code looks up in the easy-word dictionary
Normalized(token) == presentTense(pluralize(toLocaleLowerCase(token)))

\* the tokens of t as a set of surface forms
Tokens(t) == {matchWords(t)[i] : i \in 1..Len(matchWords(t))}

\* the number of tokens of t spelled w
Occurrences(t, w) == Cardinality({i \in 1..Len(matchWords(t)) : matchWords(t)[i] = w})

\* C18: difficultWords(text, t) is the number of distinct surface forms among
\* the tokens of the text whose normalized form is not in the easy-word
\* dictionary and whose own syllable count (not the normalized form's) is at
\* least t: a repeated spelling counts once, two spellings that differ in
\* letter case count separately, and a text without a token gives 0.
DifficultWordsDistinctForms ==
    op = "difficultWords" =>
        /\ ret = Number(I(Cardinality({w \in Tokens(text) :
                                /\ Normalized(w) \notin easyWordSet
                                /\ syllableCount(w) >= arg[1]})))
        /\ Tokens(text) = {} => ret = Number(Zero)

\* C18 witness: a difficult word spelled twice the same way and once with a
\* capital letter counts 2
DifficultWordsDistinctFormsWitness ==
    /\ op = "difficultWords"
    /\ Occurrences(text, <<"b", "a", "n", "a", "n", "a">>) = 2
    /\ Occurrences(text, <<"B", "a", "n", "a", "n", "a">>) = 1
    /\ ret = Number(I(2))

\* the singular form of a lower-case word: the word without its plural "s"
singularize(w) ==
    IF Len(w) > 1 /\ w[Len(w)] = "s" THEN SubSeq(w, 1, Len(w) - 1) ELSE w

\* C19: before the dictionary lookup difficultWords lower-cases the token,
\* reduces it to its singular form, then applies presentTense: the form looked
\* up is presentTense(singularize(lowercase(token))).
DifficultWordsLooksUpSingular ==
    op = "difficultWords" =>
        ret = Number(I(Cardinality({w \in Tokens(text) :
                  /\ presentTense(singularize(toLocaleLowerCase(w))) \notin easyWordSet
                  /\ syllableCount(w) >= arg[1]})))

\* w without its last k characters
DropLast(w, k) == SubSeq(w, 1, Len(w) - k)

\* the last k characters of w are the word ending
Ending(w, ending) == HasAt(w, Len(w) - Len(ending) + 1, ending)

DecadeGrade(d) ==
    CASE d = 9 -> I(5)
      [] d = 8 -> I(6)
      [] d = 7 -> I(7)
      [] d = 6 -> Dec(85, 1)
      [] d = 5 -> I(11)
      [] d = 4 -> I(13)
      [] d = 3 -> I(15)
      [] OTHER -> I(16)

\* C21: fleschReadingEaseToGrade(score) is the half-open table [90,100) -> 5,
\* [80,90) -> 6, [70,80) -> 7, [60,70) -> 8.5, [50,60) -> 11, [40,50) -> 13,
\* [30,40) -> 15, and 16 for every other score: below 30, from 100 on, NaN;
\* each boundary belongs to the interval above it.
FleschGradeTable ==
    op = "fleschReadingEaseToGrade" =>
        ret = Number(IF IsFinite(num) THEN DecadeGrade(FloorInt(num) \div 10)
                     ELSE I(16))

\* C21 witness: the boundary 90 has got the grade 5 of the interval above it
FleschGradeTableWitness ==
    /\ op = "fleschReadingEaseToGrade"
    /\ num = I(90)
    /\ ret = Number(I(5))

\* y / 10430 <= sqrt(30 * p / s) for the thousandths y = 1000 * a + b: y <= 0,
\* or y * y * s <= 3263547000 * p, the products taken in thousands
AtMostRoot(y, p, s) ==
    LET a == y \div 1000
        b == y % 1000
        thousands == (1000 * a * a + 2 * a * b) * s
    IN  \/ y <= 0
        \/ (b * b * s + 999) \div 1000 <= 3263547 * p - thousands

\* m tenths is 1.043 * sqrt(30 * p / s) + 3.1291 rounded to 1 decimal:
\* m <= 10.43 * sqrt(30 * p / s) + 31.791 < m + 1
SmogRounded(m, p, s) ==
    /\ AtMostRoot(1000 * m - 31791, p, s)
    /\ ~AtMostRoot(1000 * (m + 1) - 31791, p, s)

\* C22: smogIndex(text) returns 0.0 whenever sentenceCount(text) < 3, and
\* otherwise 1.043 * sqrt(30 * polysyllables / sentenceCount(text)) + 3.1291
\* rounded to 1 decimal, the polysyllables being the Readability.split tokens
\* of 3 or more syllables.
SmogIndexFormula ==
    op = "smogIndex" =>
        LET words == split(text)
            polysyllables == Cardinality({i \in 1..Len(words) : syllableCount(words[i]) >= 3})
        IN  IF sentenceCount(text) < 3 THEN ret = Number(Zero)
            ELSE /\ IsFinite(ret.v)
                 /\ 10 % ret.v.d = 0
                 /\ SmogRounded((ret.v.n * 10) \div ret.v.d, polysyllables,
                                sentenceCount(text))

\* C22 witness: 3 sentences with 2 polysyllables among them, SMOG 7.8
SmogIndexFormulaWitness ==
    /\ op = "smogIndex"
    /\ sentenceCount(text) = 3
    /\ polySyllableCount(text) = 2
    /\ ret = Number(Dec(78, 1))

\* the first 100 tokens of Readability.split(t)
FirstHundred(t) == SubSeq(split(t), 1, IF Len(split(t)) < 100 THEN Len(split(t)) ELSE 100)

\* (n - 2) / 2 when n <= 20 and n / 2 otherwise, for n = (easy + 3 * hard) /
\* sentenceCount(tokens joined by single spaces)
LinsearValue(tokens) ==
    LET hard == Cardinality({i \in 1..Len(tokens) : syllableCount(tokens[i]) >= 3})
        easy == Len(tokens) - hard
        n == Div(I(easy + 3 * hard), I(sentenceCount(join(tokens, 1))))
    IN  IF Le(n, I(20)) THEN Div(Sub(n, I(2)), I(2)) ELSE Div(n, I(2))

\* C23: linsearWriteFormula(text) is (n - 2) / 2 when n <= 20 and n / 2
\* otherwise, rounded to 1 decimal, where n = (easy + 3 * hard) /
\* sentenceCount(the first 100 split tokens joined by single spaces), easy the
\* number of those tokens of fewer than 3 syllables and hard the number of the
\* others; it depends on the first 100 tokens only.
LinsearWriteRounded ==
    op = "linsearWriteFormula" =>
        HalfAwayFromZero(LinsearValue(FirstHundred(text)), 1, ret.v)

\* C24: for every text, the texts without a word longer than 6 characters
\* included, rix(text) is (the number of Readability.split tokens longer than 6
\* characters) / sentenceCount(text) rounded to 2 decimals, and 0.0 whenever
\* the result is not a number.
RixRounded ==
    op = "rix" =>
        LET words == split(text)
            long == Cardinality({i \in 1..Len(words) : Len(words[i]) > 6})
            ratio == Div(I(long), I(sentenceCount(text)))
        IN  IF IsNaN(ratio) THEN ret = Number(Zero)
            ELSE HalfAwayFromZero(ratio, 2, ret.v)

DaleChallGrades == {I(4), I(5), I(7), I(9), I(11), I(13), I(16)}

\* C25: for every text the grade textStandard selects is a finite integer that
\* occurs at least twice in the vote list, never NaN and never the Flesch
\* Reading Ease grade 8.5, also when some votes are NaN: the Dale-Chall grade,
\* an integer of {4, 5, 7, 9, 11, 13, 16}, is pushed twice, floor and ceiling
\* equal, after the Flesch Reading Ease grade.
TextStandardWinnerInteger ==
    op = "textStandard" =>
        LET winner == finalGrade(grade)[1]
        IN  /\ IsFinite(winner) /\ winner.d = 1
            /\ Cardinality({i \in 1..Len(grade) : grade[i] = winner}) >= 2
            /\ winner # Dec(85, 1)
            /\ grade[10] \in DaleChallGrades /\ grade[11] = grade[10]
            /\ arg[1] = "true" => ret = Number(winner)

\* C25 witness: the NaN votes outnumber the occurrences of every value, and
\* an integer is returned
TextStandardWinnerIntegerWitness ==
    /\ op = "textStandard"
    /\ arg = <<"true">>
    /\ \A i \in 1..Len(grade) :
          Cardinality({j \in 1..Len(grade) : IsNaN(grade[j])}) > countOf(grade, grade[i])
    /\ ret.t = "number" /\ IsFinite(ret.v) /\ ret.v.d = 1

\* 0 <= x <= 100
IsPercentage(x) == Ge(x, Zero) /\ Le(x, I(100))

\* C26: for every text and every threshold t >= 2, difficultWords(text, t) <=
\* lexiconCount(text), so that with wordCount > 0 the percentage of difficult
\* words of daleChallReadabilityScore, 100 - (wordCount - difficultWords) /
\* wordCount * 100, and that of gunningFog, difficultWords(text, 3) /
\* wordCount * 100, lie in [0, 100].
DifficultWordsAtMostWords ==
    (op = "difficultWords" /\ arg[1] >= 2) =>
        LET wordCount == I(lexiconCount(text, TRUE))
        IN  /\ Le(ret.v, wordCount)
            /\ Gt(wordCount, Zero) =>
                  /\ IsPercentage(Sub(I(100),
                        Mul(Div(Sub(wordCount, ret.v), wordCount), I(100))))
                  /\ IsPercentage(Mul(Div(ret.v, wordCount), I(100)))

====
